---- MODULE Spec2Model ----
(***************************************************************************)
(* Model of geocode_google.py: the record parser (parse_line), the address *)
(* resolver (geocode_once, geocode_with_trimming) and the batch driver     *)
(* (main).                                                                 *)
(*                                                                         *)
(* Text is modelled as a sequence of one-character strings, so that the    *)
(* string operations of the source (strip, split, join, replace,           *)
(* startswith) are computed on the characters.  The input file is the      *)
(* sequence of its decoded lines; the output file is the sequence of       *)
(* lines handed to f_out.write, each line being the tuple of its four      *)
(* comma-separated fields.  The cp1251 codec of both files is outside the  *)
(* model: every character of the model's alphabet is encodable.            *)
(***************************************************************************)
EXTENDS Integers, Sequences, FiniteSets, TLC

\* ------------------------------------------------------------------ bounds
\* Largest number of lines of the input file.
MaxLines == 2

\* ------------------------------------------------------- text primitives
Q == "\""

\* Python's None, for a text value and for a coordinate.
None == <<"None">>
NoneF == "None"

\* The element of a one-element set.  The text operations below bind each
\* text they work on to its value, as the source binds it to a local
\* variable: The({e : x \in {v}}) is e with x standing for the value of v.
The(S) == CHOOSE r \in S : TRUE

RECURSIVE LStrip(_, _)
LStrip(s0, cs) ==
    The({IF s # <<>> /\ Head(s) \in cs THEN LStrip(Tail(s), cs) ELSE s : s \in {s0}})

RECURSIVE RStrip(_, _)
RStrip(s0, cs) ==
    The({IF s # <<>> /\ s[Len(s)] \in cs
         THEN RStrip(SubSeq(s, 1, Len(s) - 1), cs)
         ELSE s : s \in {s0}})

\* str.strip(chars): every leading and trailing character of cs is removed.
StripChars(s, cs) == RStrip(LStrip(s, cs), cs)

\* str.strip(): whitespace.
Strip(s) == StripChars(s, {" "})

\* Index of the first occurrence of c in s, 0 when absent.
Find(s0, c) ==
    The({IF \E k \in 1..Len(s) : s[k] = c
         THEN CHOOSE k \in 1..Len(s) : s[k] = c /\ \A j \in 1..(k - 1) : s[j] # c
         ELSE 0 : s \in {s0}})

\* str.split(c): every occurrence of c separates two parts.
RECURSIVE Split(_, _)
Split(s0, c) ==
    The({The({IF k = 0 THEN <<s>>
              ELSE <<SubSeq(s, 1, k - 1)>> \o Split(SubSeq(s, k + 1, Len(s)), c)
              : k \in {Find(s, c)}}) : s \in {s0}})

\* str.split(c, 1): only the first occurrence of c separates.
Split1(s0, c) ==
    The({The({IF k = 0 THEN <<s>>
              ELSE <<SubSeq(s, 1, k - 1), SubSeq(s, k + 1, Len(s))>>
              : k \in {Find(s, c)}}) : s \in {s0}})

\* sep.join(parts)
RECURSIVE Join(_, _)
Join(parts0, sep) ==
    The({IF parts = <<>> THEN <<>>
         ELSE IF Len(parts) = 1 THEN parts[1]
         ELSE parts[1] \o sep \o Join(Tail(parts), sep) : parts \in {parts0}})

\* s.replace('""', '"'): non-overlapping pairs, left to right.
RECURSIVE Unescape(_)
Unescape(s0) ==
    The({IF s = <<>> THEN <<>>
         ELSE IF Len(s) >= 2 /\ s[1] = Q /\ s[2] = Q
              THEN <<Q>> \o Unescape(SubSeq(s, 3, Len(s)))
              ELSE <<s[1]>> \o Unescape(Tail(s)) : s \in {s0}})

\* s.replace('"', '""')
RECURSIVE Escape(_)
Escape(s0) ==
    The({IF s = <<>> THEN <<>>
         ELSE (IF s[1] = Q THEN <<Q, Q>> ELSE <<s[1]>>) \o Escape(Tail(s)) : s \in {s0}})

LowerChar(c) == IF c = "I" THEN "i" ELSE IF c = "D" THEN "d" ELSE c

\* str.lower() on the model's alphabet.
Lower(s0) == The({[k \in 1..Len(s) |-> LowerChar(s[k])] : s \in {s0}})

StartsWith(s, p) == Len(s) >= Len(p) /\ SubSeq(s, 1, Len(p)) = p

EndsWith(s, p) == Len(s) >= Len(p) /\ SubSeq(s, Len(s) - Len(p) + 1, Len(s)) = p

\* A filter over a sequence, keeping the order.
RECURSIVE SelectNonEmpty(_)
SelectNonEmpty(ps0) ==
    The({IF ps = <<>> THEN <<>>
         ELSE (IF Head(ps) # <<>> THEN <<Head(ps)>> ELSE <<>>) \o SelectNonEmpty(Tail(ps))
         : ps \in {ps0}})

\* ------------------------------------------------------------ parse_line
\* addr of parse_line, lines 115-122, from the text after the first comma.
Unquoted(raw) ==
    The({Unescape(IF StartsWith(a0, <<Q>>) /\ EndsWith(a0, <<Q>>)
                  THEN SubSeq(a0, 2, Len(a0) - 1)
                  ELSE a0) : a0 \in {Strip(raw)}})

\* Faulty variant of parse_line: the line is split on every comma, line.split(",").
parse_line_SplitAll(line0) ==
    The({The({IF line = <<>> THEN <<None, None>>
              ELSE IF StartsWith(Lower(line), <<"i", "d", ",">>) THEN <<None, None>>
              ELSE IF Len(parts) < 2 THEN <<Strip(line), <<>>>>
              ELSE <<Strip(parts[1]), Unquoted(parts[2])>>
              : parts \in {Split(line, ",")}}) : line \in {Strip(line0)}})

\* (row_id, addr) of one input line; (None, None) for a blank or header line.
parse_line(line0) ==
    The({The({IF line = <<>> THEN <<None, None>>
              ELSE IF StartsWith(Lower(line), <<"i", "d", ",">>) THEN <<None, None>>
              ELSE IF Len(parts) < 2 THEN <<Strip(line), <<>>>>
              ELSE <<Strip(parts[1]), Unquoted(parts[2])>>
              : parts \in {Split1(line, ",")}}) : line \in {Strip(line0)}})

\* ------------------------------------------- geocode_with_trimming, pure part
\* original = addr.strip().strip('"')
Original(a) == StripChars(Strip(a), {Q})

\* Faulty variant of Parts: the empty segments are kept.
Parts_Unfiltered(a) ==
    The({[k \in 1..Len(ps) |-> Strip(ps[k])] : ps \in {Split(Original(a), ",")}})

\* parts = [p.strip() for p in original.split(",") if p.strip()]
Parts(a) ==
    The({SelectNonEmpty([k \in 1..Len(ps) |-> Strip(ps[k])])
         : ps \in {Split(Original(a), ",")}})

\* Faulty variant of Candidate: the last n segments, parts[-n:].
Candidate_Suffix(a, m) ==
    LET ps == Parts(a)
    IN  Join(SubSeq(ps, Len(ps) - m + 1, Len(ps)), <<",", " ">>)

\* Faulty variant of Candidate: the loop retries the full address, parts[:len(parts)].
Candidate_Retry(a, m) == Join(Parts(a), <<",", " ">>)

\* candidate = ", ".join(parts[:n]), for n = m
Candidate(a, m) == Join(SubSeq(Parts(a), 1, m), <<",", " ">>)

\* ------------------------------------------------------------ environment
\* Input lines the runs are given (decoded text, line terminator removed).
L_header  == <<"I", "d", ",", "a">>
L_blank   == <<" ">>
L_three   == <<"1", ",", Q, "a", ",", " ", "b", ",", " ", "c", Q>>
L_empty   == <<"2", ",", Q, Q>>
L_commas  == <<"4", ",", Q, ",", Q>>
L_plain   == <<" ", "5", ",", "b">>
L_quotes  == <<"6", ",", Q, Q, Q, "a", Q, Q, ",", "b", Q>>
L_id      == <<"i", "d">>

Lines == {L_header, L_blank, L_three, L_empty, L_commas, L_plain, L_quotes, L_id}

RECURSIVE SeqsUpTo(_, _)
SeqsUpTo(S, k) ==
    IF k = 0 THEN {<<>>}
    ELSE LET shorter == SeqsUpTo(S, k - 1)
         IN  shorter \cup {Append(f, x) : f \in {g \in shorter : Len(g) = k - 1}, x \in S}

Inputs == SeqsUpTo(Lines, MaxLines)

\* Where a credential is available to load_api_key.
Credentials == {"env", "file", "none"}

\* The JSON bodies the geocoding service answers with.
Loc == [lat |-> "55.75", lng |-> "37.61"]
Responses ==
    { [status |-> "OK", results |-> <<Loc>>],
      [status |-> "OK"],
      [status |-> "ZERO_RESULTS", results |-> <<>>],
      [status |-> "REQUEST_DENIED"] }

\* ------------------------------------------------------------------ state
VARIABLES
    credential,      \* where the API key can be loaded from
    GOOGLE_API_KEY,  \* the module global geocode_once reads: "unbound" when the
                     \* module runs as a script (no statement assigns it), "key"
                     \* when an embedding program has bound it to load_api_key()
    in_exists,       \* in_path.exists()
    f_in,            \* the lines of the input file
    out_exists,      \* the output file exists on disk
    f_out,           \* the lines written to f_out, in order
    flushed,         \* how many of them have reached the disk
    pc,              \* position of main
    i,               \* number of input lines consumed by the for loop
    row_id, addr,    \* main's current record
    n,               \* loop variable of geocode_with_trimming
    lat, lng,        \* main's coordinates
    trace            \* queries sent, delays slept and messages printed, in order

vars == <<credential, GOOGLE_API_KEY, in_exists, f_in, out_exists, f_out, flushed,
          pc, i, row_id, addr, n, lat, lng, trace>>

\* One entry of trace: what happened, for which input line, with which text.
Event(ev, rec, text, status, val) ==
    [ev |-> ev, rec |-> rec, text |-> text, status |-> status, val |-> val]

NoCoords == <<NoneF, NoneF>>

HeaderRow == <<<<"i", "d">>, <<"address">>, <<"lat">>, <<"lng">>>>

\* ------------------------------------------------------------ load_api_key
load_api_key(cred) == IF cred \in {"env", "file"} THEN "key" ELSE "SystemExit"

\* ------------------------------------------------------------ geocode_once
\* (lat, lng, status) of a response body.
geocode_once(data) ==
    LET status == IF "status" \in DOMAIN data THEN data.status ELSE "UNKNOWN"
        results == IF "results" \in DOMAIN data THEN data.results ELSE <<>>
    IN  IF status # "OK" THEN <<NoneF, NoneF, status>>
        ELSE IF results = <<>> THEN <<NoneF, NoneF, status>>
        ELSE <<results[1].lat, results[1].lng, status>>

\* The module globals when main() starts.  No statement of the module assigns
\* GOOGLE_API_KEY: run as a script it is unbound; the other runs are those of a
\* program that imports the module and binds the global to load_api_key().
Init ==
    /\ \/ credential \in Credentials /\ GOOGLE_API_KEY = "unbound"
       \/ credential = "env" /\ GOOGLE_API_KEY = load_api_key(credential)
    /\ in_exists \in BOOLEAN
    /\ f_in \in (IF in_exists THEN Inputs ELSE {<<>>})
    /\ out_exists = FALSE
    /\ f_out = <<>>
    /\ flushed = 0
    /\ pc = "start"
    /\ i = 0
    /\ row_id = None
    /\ addr = None
    /\ n = 0
    /\ lat = NoneF
    /\ lng = NoneF
    /\ trace = <<>>

\* Faulty variant of Start: the output file is opened before the existence test.
Start_OpenFirst ==
    /\ pc = "start"
    /\ out_exists' = TRUE
    /\ f_out' = <<HeaderRow>>
    /\ IF ~in_exists
       THEN /\ trace' = Append(trace, Event("missing", 0, <<>>, "", NoCoords))
            /\ pc' = "done"
       ELSE /\ pc' = "next_line"
            /\ UNCHANGED trace
    /\ UNCHANGED <<credential, GOOGLE_API_KEY, in_exists, f_in, flushed, i, row_id,
                   addr, n, lat, lng>>

\* main, lines 128-142: the existence test, the two opens and the header row.
Start ==
    /\ pc = "start"
    /\ IF ~in_exists
       THEN /\ trace' = Append(trace, Event("missing", 0, <<>>, "", NoCoords))
            /\ pc' = "done"
            /\ UNCHANGED <<out_exists, f_out>>
       ELSE /\ out_exists' = TRUE
            /\ f_out' = <<HeaderRow>>
            /\ pc' = "next_line"
            /\ UNCHANGED trace
    /\ UNCHANGED <<credential, GOOGLE_API_KEY, in_exists, f_in, flushed, i, row_id,
                   addr, n, lat, lng>>

\* main, line 150: not addr
EmptyAddress(a) == a = <<>>

\* geocode_with_trimming, lines 70 and 74: the two early returns.
NoSegments(a) == Original(a) = <<>> \/ Parts(a) = <<>>

\* main, lines 144-157, and geocode_with_trimming, lines 69-75: one iteration
\* of the for loop up to its first write or its first geocoding call.
NextLine ==
    /\ pc = "next_line"
    /\ i < Len(f_in)
    /\ LET rec == parse_line(f_in[i + 1])
       IN  /\ i' = i + 1
           /\ IF rec[1] = None /\ rec[2] = None
              THEN /\ pc' = "next_line"
                   /\ UNCHANGED <<row_id, addr, n, lat, lng, trace>>
              ELSE /\ row_id' = rec[1]
                   /\ addr' = rec[2]
                   /\ IF EmptyAddress(rec[2])
                      THEN /\ trace' = Append(trace, Event("empty", i + 1, <<>>, "", NoCoords))
                           /\ pc' = "write_empty"
                           /\ UNCHANGED <<n, lat, lng>>
                      ELSE IF NoSegments(rec[2])
                      THEN /\ lat' = NoneF
                           /\ lng' = NoneF
                           /\ trace' = Append(trace, Event("result", i + 1, <<>>, "", NoCoords))
                           /\ pc' = "write"
                           /\ UNCHANGED n
                      ELSE /\ n' = Len(Parts(rec[2]))
                           /\ pc' = "geocode"
                           /\ UNCHANGED <<lat, lng, trace>>
    /\ UNCHANGED <<credential, GOOGLE_API_KEY, in_exists, f_in, out_exists, f_out, flushed>>

\* Faulty variant of Except: the exception leaves the for loop and ends the run.
Except_Uncaught(sent, candidate, what) ==
    /\ trace' = trace \o sent \o <<Event("error", i, candidate, what, NoCoords)>>
    /\ pc' = "done"
    /\ UNCHANGED <<lat, lng, n>>

\* Faulty variant of Except: lat and lng keep the values of the earlier record.
Except_KeepsCoords(sent, candidate, what) ==
    /\ trace' = trace \o sent \o <<Event("error", i, candidate, what, NoCoords)>>
    /\ pc' = "write"
    /\ UNCHANGED <<lat, lng, n>>

\* main, lines 159-161: the except clause.  sent are the requests that left
\* before the exception was raised.
Except(sent, candidate, what) ==
    /\ trace' = trace \o sent \o <<Event("error", i, candidate, what, NoCoords)>>
    /\ lat' = NoneF
    /\ lng' = NoneF
    /\ pc' = "write"
    /\ UNCHANGED n

\* Faulty variant of IsMatch: a match needs coordinates.
IsMatch_WithCoords(r) == r[3] = "OK" /\ r[1] # NoneF

\* geocode_with_trimming, line 81
IsMatch(r) == r[3] = "OK"

\* Faulty variants of StopsLoop: no status ends the loop; every status but OK ends it.
StopsLoop_Never(status) == FALSE

StopsLoop_NotOK(status) == status # "OK"

\* geocode_with_trimming, lines 88-89
StopsLoop(status) == status \notin {"ZERO_RESULTS", "OK"}

\* geocode_with_trimming, lines 77-92, with geocode_once, lines 41-61: one
\* pass of the truncation loop.
Geocode ==
    /\ pc = "geocode"
    /\ LET candidate == Candidate(addr, n)
       IN  IF GOOGLE_API_KEY = "unbound"
           THEN \* NameError at line 45, before any request is sent
                Except(<<>>, candidate, "NameError")
           ELSE \/ \* SESSION.get, raise_for_status or resp.json raises
                   Except(<<Event("query", i, candidate, "raise", NoCoords)>>,
                          candidate, "raise")
                \/ \E data \in Responses :
                     LET r == geocode_once(data)
                         status == r[3]
                         query == Event("query", i, candidate, status, <<r[1], r[2]>>)
                     IN  IF IsMatch(r)
                         THEN /\ trace' = trace \o <<query>>
                                     \o (IF candidate # Original(addr)
                                         THEN <<Event("fallback", i, candidate, "", NoCoords)>>
                                         ELSE <<>>)
                                     \o <<Event("result", i, <<>>, "", <<r[1], r[2]>>)>>
                              /\ lat' = r[1]
                              /\ lng' = r[2]
                              /\ pc' = "write"
                              /\ UNCHANGED n
                         ELSE IF StopsLoop(status) \/ n = 1
                         THEN /\ trace' = trace \o <<query,
                                     Event("try", i, candidate, status, NoCoords),
                                     Event("not_found", i, Original(addr), "", NoCoords),
                                     Event("result", i, <<>>, "", NoCoords)>>
                              /\ lat' = NoneF
                              /\ lng' = NoneF
                              /\ pc' = "write"
                              /\ UNCHANGED n
                         ELSE /\ trace' = trace \o <<query,
                                     Event("try", i, candidate, status, NoCoords)>>
                              /\ n' = n - 1
                              /\ UNCHANGED <<lat, lng, pc>>
    /\ UNCHANGED <<credential, GOOGLE_API_KEY, in_exists, f_in, out_exists, f_out, flushed,
                   i, row_id, addr>>

\* str(x) of a float: its decimal text.
Str(x) == <<x>>

\* Faulty variant of OutputRow: the row carries the resolver's normalised address.
OutputRow_Normalised(id, a, la, ln) ==
    <<id, <<Q>> \o Escape(Original(a)) \o <<Q>>,
      IF la = NoneF THEN <<>> ELSE Str(la),
      IF ln = NoneF THEN <<>> ELSE Str(ln)>>

\* main, lines 163-167: the row of a record that went through the resolver.
OutputRow(id, a, la, ln) ==
    <<id, <<Q>> \o Escape(a) \o <<Q>>,
      IF la = NoneF THEN <<>> ELSE Str(la),
      IF ln = NoneF THEN <<>> ELSE Str(ln)>>

\* main, line 152: the row of a record with an empty address.
EmptyRow(id) == <<id, <<Q, Q>>, <<>>, <<>>>>

\* main, line 167
WriteRow ==
    /\ pc = "write"
    /\ f_out' = Append(f_out, OutputRow(row_id, addr, lat, lng))
    /\ pc' = "flush"
    /\ UNCHANGED <<credential, GOOGLE_API_KEY, in_exists, f_in, out_exists, flushed,
                   i, row_id, addr, n, lat, lng, trace>>

\* Faulty variant of FlushRow: the row stays in the buffer.
FlushRow_NoFlush ==
    /\ pc = "flush"
    /\ pc' = "sleep"
    /\ UNCHANGED <<credential, GOOGLE_API_KEY, in_exists, f_in, out_exists, f_out, flushed,
                   i, row_id, addr, n, lat, lng, trace>>

\* main, line 168
FlushRow ==
    /\ pc = "flush"
    /\ flushed' = Len(f_out)
    /\ pc' = "sleep"
    /\ UNCHANGED <<credential, GOOGLE_API_KEY, in_exists, f_in, out_exists, f_out,
                   i, row_id, addr, n, lat, lng, trace>>

\* main, line 170
Sleep ==
    /\ pc = "sleep"
    /\ trace' = Append(trace, Event("sleep", i, <<>>, "", NoCoords))
    /\ pc' = "next_line"
    /\ UNCHANGED <<credential, GOOGLE_API_KEY, in_exists, f_in, out_exists, f_out, flushed,
                   i, row_id, addr, n, lat, lng>>

\* Faulty variant of WriteEmpty: the empty-address branch logs and continues without a row.
WriteEmpty_NoRow ==
    /\ pc = "write_empty"
    /\ pc' = "flush_empty"
    /\ UNCHANGED <<credential, GOOGLE_API_KEY, in_exists, f_in, out_exists, f_out, flushed,
                   i, row_id, addr, n, lat, lng, trace>>

\* main, line 152
WriteEmpty ==
    /\ pc = "write_empty"
    /\ f_out' = Append(f_out, EmptyRow(row_id))
    /\ pc' = "flush_empty"
    /\ UNCHANGED <<credential, GOOGLE_API_KEY, in_exists, f_in, out_exists, flushed,
                   i, row_id, addr, n, lat, lng, trace>>

\* main, lines 153-154
FlushEmpty ==
    /\ pc = "flush_empty"
    /\ flushed' = Len(f_out)
    /\ pc' = "next_line"
    /\ UNCHANGED <<credential, GOOGLE_API_KEY, in_exists, f_in, out_exists, f_out,
                   i, row_id, addr, n, lat, lng, trace>>

\* main, line 144 at the end of the file, and the exit of the with block
\* (lines 136-137), which closes f_out.
Finish ==
    /\ pc = "next_line"
    /\ i = Len(f_in)
    /\ flushed' = Len(f_out)
    /\ pc' = "done"
    /\ UNCHANGED <<credential, GOOGLE_API_KEY, in_exists, f_in, out_exists, f_out,
                   i, row_id, addr, n, lat, lng, trace>>

Next ==
    \/ Start
    \/ NextLine
    \/ Geocode
    \/ WriteRow
    \/ FlushRow
    \/ Sleep
    \/ WriteEmpty
    \/ FlushEmpty
    \/ Finish

Spec == Init /\ [][Next]_vars

\* The run as the interpreter executes it: main is one sequential thread, so
\* the statement it stands at is executed; every geocoding call returns or
\* raises (SESSION.get has timeout=10, line 48).
FairSpec == Spec /\ WF_vars(Next)

\* ================================================================ claims
\* Helpers of the claims: the records of a list of lines, the rows of the
\* output file, and the queries sent for one input line.
\* parse_line and the resolver's segments of every line of the runs, tabulated.
Parsed == [l \in Lines |-> parse_line(l)]

Segments == [l \in Lines |-> Parts(Parsed[l][2])]

IsRecordLine(line) == Parsed[line] # <<None, None>>

Records(lines) ==
    LET rs == SelectSeq(lines, IsRecordLine)
    IN  [k \in 1..Len(rs) |-> Parsed[rs[k]]]

\* Number of records among the first j input lines.
RecNo(j) == Len(SelectSeq(SubSeq(f_in, 1, j), IsRecordLine))

Rows == IF f_out = <<>> THEN <<>> ELSE Tail(f_out)

\* The row of input line j (a record line) has been written.
HasRow(j) == Len(Rows) >= RecNo(j)

RowOf(j) == Rows[RecNo(j)]

QueryIdx == {k \in 1..Len(trace) : trace[k].ev = "query"}

QueriesOf(j) == {k \in QueryIdx : trace[k].rec = j}

\* The record of main is between its parse and its write.
InFlight == pc \in {"geocode", "write", "write_empty"}

\* The text between the outer quotes of an address field.
Inner(field) == SubSeq(field, 2, Len(field) - 1)

\* The address of input line j and its longest candidate.
AddrOf(j) == Parsed[f_in[j]][2]

SegmentsOf(j) == Segments[f_in[j]]

\* The candidate of input line j made of its first m segments.
CandidateOf(j, m) == Join(SubSeq(SegmentsOf(j), 1, m), <<",", " ">>)

FullCandidate(j) == CandidateOf(j, Len(SegmentsOf(j)))

NoCoordsInRow(j) == RowOf(j)[3] = <<>> /\ RowOf(j)[4] = <<>>

C2_OriginalAddress ==
    LET recs == Records(SubSeq(f_in, 1, i))
        rows == Rows
    IN  /\ \A k \in 1..Len(rows) :
             LET field == rows[k][2]
                 a == recs[k][2]
             IN  /\ field[1] = Q
                 /\ field[Len(field)] = Q
                 /\ Unescape(Inner(field)) = a
                 /\ Len(Inner(field)) = Len(a) + Cardinality({m \in 1..Len(a) : a[m] = Q})
        /\ \A k \in QueryIdx :
             LET e == trace[k]
             IN  (e.status = "OK" /\ e.val # NoCoords /\ e.text # FullCandidate(e.rec)
                  /\ HasRow(e.rec))
                 => /\ Unescape(Inner(RowOf(e.rec)[2])) = AddrOf(e.rec)
                    /\ RowOf(e.rec)[3] = Str(e.val[1])
                    /\ RowOf(e.rec)[4] = Str(e.val[2])

\* The quoted two-segment address with inner quotes, matched by its first
\* segment only, written.
C2_Witness ==
    /\ f_in # <<>>
    /\ f_in[1] = L_quotes
    /\ HasRow(1)
    /\ i = 1
    /\ \E k \in QueriesOf(1) :
         /\ trace[k].status = "OK"
         /\ trace[k].text = <<"a", Q>>
    /\ RowOf(1) = <<<<"6">>, <<Q, Q, Q, "a", Q, Q, ",", "b", Q>>, <<"55.75">>, <<"37.61">>>>

\* C3 (as claimed): between any two geocoding queries of the run a delay is
\* slept, also between two candidates of one record.
C3_DelayBetweenCalls ==
    \A k1, k2 \in QueryIdx :
        k1 < k2 => \E m \in (k1 + 1)..(k2 - 1) : trace[m].ev = "sleep"

\* C4: a status other than OK and ZERO_RESULTS ends the truncation of its
\* record at once: no later query is sent for that record, its row has no
\* coordinates, the run does not end without that row, and the first query of
\* every later record is again its full candidate.
C4_TerminalHalts ==
    \A k \in QueryIdx :
        LET e == trace[k]
        IN  e.status \notin {"OK", "ZERO_RESULTS", "raise"}
            => /\ \A m \in QueriesOf(e.rec) : m <= k
               /\ HasRow(e.rec) => NoCoordsInRow(e.rec)
               /\ pc = "done" => HasRow(e.rec) /\ i = Len(f_in)
               /\ \A m \in QueryIdx :
                    (m > k /\ \A m2 \in QueriesOf(trace[m].rec) : m2 >= m)
                    => trace[m].text = FullCandidate(trace[m].rec)

\* The first candidate of a three-segment record is denied, and the next record
\* is matched.
C4_Witness ==
    /\ pc = "done"
    /\ f_in = <<L_three, L_plain>>
    /\ \E k \in QueriesOf(1) : trace[k].status = "REQUEST_DENIED"
    /\ NoCoordsInRow(1)
    /\ RowOf(2)[3] = <<"55.75">>

\* C5: when the query of the full candidate of a record returns OK, it is the
\* only query sent for that record.
C5_FullMatchOneCall ==
    \A k \in QueryIdx :
        LET e == trace[k]
        IN  (e.status = "OK" /\ e.text = FullCandidate(e.rec)) => QueriesOf(e.rec) = {k}

\* The full candidate of a three-segment record returned OK (here without any
\* result) and the record is written.
C5_Witness ==
    /\ pc = "done"
    /\ f_in = <<L_three>>
    /\ \E k \in QueriesOf(1) :
         /\ trace[k].status = "OK"
         /\ trace[k].val = NoCoords
         /\ trace[k].text = <<"a", ",", " ", "b", ",", " ", "c">>

\* C6: after a ZERO_RESULTS the next shorter candidate is queried; a written
\* record all of whose queries returned ZERO_RESULTS has had each of its N
\* candidates queried once, longest first, and its row has no coordinates.
C6_ZeroResultsExhausts ==
    LET qs == QueryIdx
        last == IF qs = {} THEN 0 ELSE CHOOSE k \in qs : \A k2 \in qs : k2 <= k
    IN  /\ \A k \in qs :
             trace[k].status = "ZERO_RESULTS"
             => LET j == trace[k].rec
                    N == Len(SegmentsOf(j))
                IN  \A m \in 2..N :
                       trace[k].text = CandidateOf(j, m)
                       => IF k = last
                          THEN pc = "geocode" /\ i = j /\ n = m - 1
                          ELSE \E k2 \in qs :
                                 /\ k2 > k
                                 /\ trace[k2].rec = j
                                 /\ trace[k2].text = CandidateOf(j, m - 1)
        /\ \A j \in 1..i :
             LET mine == {k \in qs : trace[k].rec = j}
             IN  (/\ IsRecordLine(f_in[j])
                  /\ HasRow(j)
                  /\ mine # {}
                  /\ \A k \in mine : trace[k].status = "ZERO_RESULTS")
                 => LET N == Len(SegmentsOf(j))
                    IN  /\ Cardinality(mine) = N
                        /\ \A m \in 1..N :
                             Cardinality({k \in mine : trace[k].text = CandidateOf(j, m)}) = 1
                        /\ \A k1, k2 \in mine :
                             k1 < k2 => Len(trace[k1].text) > Len(trace[k2].text)
                        /\ NoCoordsInRow(j)

\* The three candidates of a three-segment record returned ZERO_RESULTS.
C6_Witness ==
    /\ pc = "done"
    /\ f_in = <<L_three>>
    /\ Cardinality(QueriesOf(1)) = 3
    /\ \A k \in QueriesOf(1) : trace[k].status = "ZERO_RESULTS"
    /\ NoCoordsInRow(1)

C8_MissingCredentialAborts ==
    load_api_key(credential) = "SystemExit"
    => /\ i = 0
       /\ Rows = <<>>
       /\ \A k \in 1..Len(trace) : trace[k].ev \notin {"query", "error"}

\* Every comma-separated piece of the address, outer quotes removed, is blank.
BlankAddress(a) ==
    LET ps == Split(StripChars(Strip(a), {Q}), ",")
    IN  \A k \in 1..Len(ps) : Strip(ps[k]) = <<>>

\* C9: for a record whose address is empty or has no non-empty segment,
\* geocode_once is never called, the row has no coordinates, and the run
\* goes on to the end of the file.
C9_NoCallForEmpty ==
    \A j \in 1..i :
        (IsRecordLine(f_in[j]) /\ BlankAddress(AddrOf(j)))
        => /\ \A k \in 1..Len(trace) :
                trace[k].rec = j => trace[k].ev \notin {"query", "error"}
           /\ HasRow(j) => NoCoordsInRow(j)
           /\ pc = "done" => HasRow(j) /\ i = Len(f_in)

\* A record whose address is a lone comma, then a record that is matched.
C9_Witness ==
    /\ pc = "done"
    /\ f_in = <<L_commas, L_three>>
    /\ RowOf(1) = <<<<"4">>, <<Q, ",", Q>>, <<>>, <<>>>>
    /\ RowOf(2)[3] = <<"55.75">>

\* C10: when the input file is missing the output file is not created,
\* nothing is written to it and no query is sent.
C10_MissingInputNoOutput ==
    ~in_exists
    => /\ out_exists = FALSE
       /\ f_out = <<>>
       /\ flushed = 0
       /\ i = 0
       /\ \A k \in 1..Len(trace) : trace[k].ev \notin {"query", "error"}

\* The run over a missing input file has ended.
C10_Witness ==
    /\ ~in_exists
    /\ pc = "done"
    /\ trace # <<>>

\* Rows of records written to f_out that have not reached the disk (the
\* header row, written before the loop, is flushed with the first record).
UnflushedRows == Len(f_out) - (IF flushed = 0 THEN 1 ELSE flushed)

\* C11: the row of a record is flushed before anything is done for the next
\* record: outside the step between a row's write and its flush no row is
\* unflushed, and in that step only the row just written is.
C11_FlushedPerRecord ==
    out_exists =>
        /\ pc \in {"flush", "flush_empty"} => UnflushedRows = 1 /\ flushed < Len(f_out)
        /\ pc \notin {"flush", "flush_empty"} => UnflushedRows = 0
        /\ (pc \in {"sleep", "geocode", "write", "write_empty"} /\ Len(Rows) > 0)
           => flushed = Len(f_out)

\* The second record is about to be geocoded and the first record's row is
\* on disk.
C11_Witness ==
    /\ pc = "geocode"
    /\ i = 2
    /\ Len(Rows) = 1
    /\ flushed = 2

\* The message printed right after the k-th entry of trace is a fallback notice.
FallbackFollows(k) == k < Len(trace) /\ trace[k + 1].ev = "fallback"

\* C12: a record resolved by a candidate gets a fallback notice exactly when
\* that candidate has fewer segments than the full-address candidate: none
\* when the full-address candidate geocodes OK, one when a truncated one does.
C12_FallbackIffTruncated ==
    \A k \in QueryIdx :
        (trace[k].status = "OK" /\ trace[k].val # NoCoords)
            => (FallbackFollows(k) <=> trace[k].text # FullCandidate(trace[k].rec))

\* The line a re-run reads for a row: its id and its quoted address field,
\* the coordinates left out.
Reconstructed(row) == row[1] \o <<",">> \o row[2]

\* C13: the id and address field of every row, fed back to the record parser,
\* give the (row_id, address) pair the row was written from, so a re-run
\* builds the same candidates for it.
C13_RerunSameRecords ==
    LET recs == Records(SubSeq(f_in, 1, i))
        rows == Rows
    IN  \A k \in 1..Len(rows) :
            /\ parse_line(Reconstructed(rows[k])) = recs[k]
            /\ Parts(parse_line(Reconstructed(rows[k]))[2]) = Parts(recs[k][2])

\* The line of the input file in place k is blank / looks like a header.
IsBlankLine(line) == Strip(line) = <<>>

LooksLikeHeader(line) == StartsWith(Lower(Strip(line)), <<"i", "d", ",">>)

\* C14: only the first line can be skipped as a header: a finished run has one
\* row for every non-blank line after the first, and one for the first line
\* unless it is blank or a header.
C14_HeaderOnlyFirstLine ==
    pc = "done" /\ in_exists =>
        Len(Rows) = Cardinality({k \in 1..Len(f_in) :
                        /\ ~IsBlankLine(f_in[k])
                        /\ k = 1 => ~LooksLikeHeader(f_in[k])})

\* The place of the k-th entry of trace among the queries of its record.
QueryRank(k) == Cardinality({m \in QueryIdx : trace[m].rec = trace[k].rec /\ m <= k})

\* C15: the p-th candidate queried for a record with N segments is the
\* ", "-join of its first N - p + 1 segments: the first is the full candidate,
\* each later one has one segment fewer, none has more than N or no segment;
\* for the three-segment address the candidates are "a, b, c", "a, b", "a".
C15_CandidatesArePrefixes ==
    LET qs == QueryIdx
    IN  \A k \in qs :
            LET j == trace[k].rec
                N == Len(SegmentsOf(j))
                p == Cardinality({m \in qs : trace[m].rec = j /\ m <= k})
            IN  /\ p <= N
                /\ trace[k].text = CandidateOf(j, N - p + 1)
                /\ trace[k].text # <<>>
                /\ f_in[j] = L_three =>
                       trace[k].text = CASE p = 1 -> <<"a", ",", " ", "b", ",", " ", "c">>
                                         [] p = 2 -> <<"a", ",", " ", "b">>
                                         [] OTHER -> <<"a">>

\* The three-segment address queried down to its first segment.
C15_Witness ==
    /\ f_in # <<>>
    /\ f_in[1] = L_three
    /\ \E k \in QueriesOf(1) : QueryRank(k) = 3 /\ trace[k].text = <<"a">>

\* The resolver's return value for the record whose k-th entry of trace is a
\* query answered OK: the entry after the query and its fallback notice.
ReturnedAfter(k) == trace[IF FallbackFollows(k) THEN k + 2 ELSE k + 1]

\* C16: a response is a match only if its status is OK and it has a result:
\* whenever the resolver stops truncating on a status OK, the coordinates it
\* returns are those of the first result and are not absent.
C16_MatchHasCoordinates ==
    \A k \in QueryIdx :
        trace[k].status = "OK"
            => /\ ReturnedAfter(k).ev = "result"
               /\ ReturnedAfter(k).val = <<Loc.lat, Loc.lng>>
               /\ ReturnedAfter(k).val # NoCoords

\* The resolver has ended for the record whose last query is the k-th entry of
\* trace in one of its three ways.
EndsByMatch(k) == trace[k].status = "OK"

EndsByHardStop(k) == trace[k].status \notin {"OK", "ZERO_RESULTS"}

EndsByExhaustion(k) ==
    /\ trace[k].status = "ZERO_RESULTS"
    /\ QueryRank(k) = Len(SegmentsOf(trace[k].rec))

\* In a record of N segments at most N calls are made, no candidate is
\* queried twice, and a record whose row is written ended its resolution by a
\* match, a hard stop or exhaustion.
C17_Bounded ==
    LET qs == QueryIdx
    IN  /\ \A k \in qs :
              /\ Cardinality({m \in qs : trace[m].rec = trace[k].rec})
                     <= Len(SegmentsOf(trace[k].rec))
              /\ \A m \in qs :
                     (m # k /\ trace[m].rec = trace[k].rec) => trace[m].text # trace[k].text
        /\ \A k \in qs :
              (HasRow(trace[k].rec) /\ \A m \in qs : trace[m].rec = trace[k].rec => m <= k)
                  => EndsByMatch(k) \/ EndsByHardStop(k) \/ EndsByExhaustion(k)

\* C17: the resolution of a record is a bounded iteration without retry, and
\* the run, whose geocoding calls all return or raise, eventually has
\* processed every input line and finished.
C17_BoundedAndTerminates ==
    /\ []C17_Bounded
    /\ <>(pc = "done" /\ i = Len(f_in))

\* A finished run over two records: the first exhausted its three candidates,
\* the second stopped on a terminal status.
C17_Witness ==
    /\ pc = "done"
    /\ f_in = <<L_three, L_quotes>>
    /\ i = 2
    /\ Cardinality(QueriesOf(1)) = 3
    /\ \A k \in QueriesOf(1) : trace[k].status = "ZERO_RESULTS"
    /\ Cardinality(QueriesOf(2)) = 1
    /\ \E k \in QueriesOf(2) : trace[k].status = "REQUEST_DENIED"

\* Places of the commas of a text.
Commas(s) == {k \in 1..Len(s) : s[k] = ","}

\* main holds the record of input line i in row_id and addr.
HoldsRecord == pc \in {"geocode", "write", "flush", "sleep", "write_empty", "flush_empty"}

\* C18: the record of a line that is neither blank nor a header is cut at the
\* first comma of the line: row_id is the (trimmed) text before it and addr
\* keeps every later comma; a line without a comma gives row_id the whole line
\* and an empty address, written as an empty-address row; parse_line returns a
\* pair for every line.
C18_SplitsOnFirstComma ==
    /\ \A l \in Lines : Len(Parsed[l]) = 2
    /\ HoldsRecord =>
          LET line == Strip(f_in[i])
              cs == Commas(line)
          IN  IF cs = {}
              THEN /\ row_id = line
                   /\ addr = <<>>
                   /\ pc \in {"write_empty", "flush_empty"}
                   /\ pc = "flush_empty" => f_out[Len(f_out)] = <<line, <<Q, Q>>, <<>>, <<>>>>
              ELSE LET first == CHOOSE k \in cs : \A m \in cs : k <= m
                   IN  /\ row_id = Strip(SubSeq(line, 1, first - 1))
                       /\ Commas(row_id) = {}
                       /\ Cardinality(Commas(addr)) = Cardinality(cs) - 1

\* The row of the three-segment record is written with its two inner commas,
\* and the line without a comma has just been written as an empty-address row.
C18_Witness ==
    /\ f_in = <<L_three, L_id>>
    /\ pc = "flush_empty"
    /\ Rows = << <<<<"1">>, <<Q, "a", ",", " ", "b", ",", " ", "c", Q>>, <<>>, <<>>>>,
                 <<<<"i", "d">>, <<Q, Q>>, <<>>, <<>>>> >>

\* C19: in every row lat and lng are both present or both empty, and they are
\* present only if a query of that same record was answered OK, whose
\* coordinates they are; a record whose queries were all answered
\* ZERO_RESULTS or a terminal status, or raised, has none, whatever an
\* earlier record got.
C19_CoordinatesFromOwnMatch ==
    \A j \in 1..i :
        (IsRecordLine(f_in[j]) /\ HasRow(j))
            => LET row == RowOf(j)
               IN  /\ row[3] = <<>> <=> row[4] = <<>>
                   /\ row[3] # <<>> =>
                          \E k \in QueriesOf(j) :
                              /\ trace[k].status = "OK"
                              /\ row[3] = Str(trace[k].val[1])
                              /\ row[4] = Str(trace[k].val[2])
                   /\ (\A k \in QueriesOf(j) : trace[k].status # "OK") => NoCoordsInRow(j)

\* The first record matched and has coordinates; the call of the second
\* raised and its row has none.
C19_Witness ==
    /\ f_in = <<L_plain, L_three>>
    /\ Len(Rows) = 2
    /\ Rows[1][3] = <<"55.75">>
    /\ Rows[1][4] = <<"37.61">>
    /\ \E k \in QueriesOf(2) : trace[k].status = "raise"
    /\ NoCoordsInRow(2)

====
